---- MODULE Spec2Model ----
(***************************************************************************)
(* Model of the AMHUB operator console: the topology poller of App.tsx     *)
(* (fetchDevices, the polling effect, getProjectTopology) and the device   *)
(* marker reconciliation effect of components/MapPicker.tsx.               *)
(***************************************************************************)
EXTENDS Integers, Sequences, FiniteSets, TLC

(***************************************************************************)
(* Bounds of the model.                                                    *)
(***************************************************************************)
\* total number of fetchDevices calls issued in one behaviour
MaxFetches == 3
\* number of times the settings are saved (each restarts the poll loop)
MaxRestarts == 1
\* last value of the wall clock (Date.now()), which starts at 1
MaxTime == 2

(***************************************************************************)
(* JavaScript values of the loosely typed upstream payload.                *)
(* t is the typeof tag, n the numeric payload, s the string payload.       *)
(***************************************************************************)
U == [t |-> "undefined", n |-> 0, s |-> ""]
N == [t |-> "null", n |-> 0, s |-> ""]
NaN == [t |-> "number", n |-> 0, s |-> "NaN"]
Num(k) == [t |-> "number", n |-> k, s |-> ""]
Str(x) == [t |-> "string", n |-> 0, s |-> x]
Bool(b) == [t |-> "boolean", n |-> IF b THEN 1 ELSE 0, s |-> ""]

IsNaN(x) == x.t = "number" /\ x.s = "NaN"
IsUndefined(x) == x.t = "undefined"
IsNullish(x) == x.t \in {"undefined", "null"}

\* JavaScript truthiness (the left operand test of || and of if)
Truthy(x) ==
    CASE x.t = "number" -> x.n # 0 /\ ~IsNaN(x)
      [] x.t = "string" -> x.s # ""
      [] x.t = "boolean" -> x.n = 1
      [] OTHER -> FALSE

\* a || b
Or(a, b) == IF Truthy(a) THEN a ELSE b
\* a ?? b
Coalesce(a, b) == IF IsNullish(a) THEN b ELSE a

\* the integer a decimal string denotes, for the strings the model uses
DecimalStrings == {"0", "1", "3"}
StrToInt(x) == CASE x = "0" -> 0 [] x = "1" -> 1 [] x = "3" -> 3 [] OTHER -> 0

\* Number(x)
ToNumber(x) ==
    CASE x.t = "number" -> x
      [] x.t = "null" -> Num(0)
      [] x.t = "boolean" -> Num(x.n)
      [] x.t = "string" ->
            IF x.s = "" THEN Num(0)
            ELSE IF x.s \in DecimalStrings THEN Num(StrToInt(x.s)) ELSE NaN
      [] OTHER -> NaN

\* x === 0 for a number x
IsZero(x) == x.t = "number" /\ ~IsNaN(x) /\ x.n = 0

\* the text before the first '-' of a model key, for the keys the model uses
KeyHead(k) ==
    CASE k = "0-67-0" -> "0"
      [] k = "3-1-0" -> "3"
      [] k = "1-2-3" -> "1"
      [] OTHER -> k

\* parseInt(key.split('-')[0]) for a string key
ParseIntHead(k) ==
    IF KeyHead(k) \in DecimalStrings THEN Num(StrToInt(KeyHead(k))) ELSE NaN

(***************************************************************************)
(* Raw host records of the topology listing (item.host).  The numeric      *)
(* state fields of the payloads of the model hold a number, null or        *)
(* nothing, so Number(...) of them is never NaN.                           *)
(***************************************************************************)
EmptyState ==
    [present |-> FALSE,
     latitude |-> U, longitude |-> U, height |-> U, elevation |-> U,
     horizontal_speed |-> U, sdr_quality |-> U, total_flight_time |-> U,
     attitude_head |-> U, heading |-> U, attitude_pitch |-> U,
     attitude_roll |-> U,
     battery |-> [present |-> FALSE, capacity_percent |-> U,
                  isArray |-> FALSE, batteries |-> <<>>]]

NoOffline == [present |-> FALSE, latitude |-> U, longitude |-> U]

\* a host record none of whose fields is present
BaseHost ==
    [domain |-> U, modelDomain |-> U, device_model_key |-> U,
     device_sn |-> U, sn |-> U, device_online_status |-> U,
     modelName |-> U, modelKey |-> U,
     device_project_callsign |-> U, device_organization_callsign |-> U,
     device_state |-> EmptyState, device_offline_position |-> NoOffline]

\* an entry of data.list: null, or an object with or without a host
NullItem == [isNull |-> TRUE, hasHost |-> FALSE, host |-> BaseHost]
NoHostItem == [isNull |-> FALSE, hasHost |-> FALSE, host |-> BaseHost]
HostItem(d) == [isNull |-> FALSE, hasHost |-> TRUE, host |-> d]

(***************************************************************************)
(* The normalized device model (types Device, DeviceTelemetry).            *)
(***************************************************************************)
ZeroTelemetry ==
    [latitude |-> 0, longitude |-> 0, height |-> 0, speed |-> 0,
     battery_percent |-> 0, link_signal_quality |-> 0, flight_time |-> 0,
     yaw |-> 0, pitch |-> 0, roll |-> 0]

\* String(x) of a string or of a small number
ToStr(x) ==
    CASE x.t = "string" -> x.s
      [] x.t = "number" /\ x.n = 1 -> "1"
      [] x.t = "number" /\ x.n = 3 -> "3"
      [] OTHER -> "0"

\* Number(x || 0) of a numeric state field
NumberOrZero(x) == ToNumber(Or(x, Num(0))).n

\* state = d.device_state || {}
StateOf(d) == IF d.device_state.present THEN d.device_state ELSE EmptyState

\* d.domain ?? d.device_model?.domain, then the model key prefix
DomainVal(d) ==
    LET first == Coalesce(d.domain, d.modelDomain)
    IN  IF IsUndefined(first) /\ Truthy(d.device_model_key)
        THEN ParseIntHead(d.device_model_key.s)
        ELSE first

\* d.device_model_key.split is not a function: the key is truthy, no string
DomainThrows(d) ==
    /\ IsUndefined(Coalesce(d.domain, d.modelDomain))
    /\ Truthy(d.device_model_key)
    /\ d.device_model_key.t # "string"

IsOnline(d) ==
    \/ (d.device_online_status.t = "boolean" /\ d.device_online_status.n = 1)
    \/ (d.device_online_status.t = "number" /\ d.device_online_status.n = 1
            /\ ~IsNaN(d.device_online_status))

ModelName(d) == Or(Or(d.modelName, d.modelKey), Str("Drone"))
Nickname(d) ==
    Or(Or(d.device_project_callsign, d.device_organization_callsign),
       ModelName(d))

\* Position that falls back when either live coordinate is 0
Position_EitherZero(d) ==
    LET state == StateOf(d)
        lat == NumberOrZero(state.latitude)
        lng == NumberOrZero(state.longitude)
    IN  IF (lat = 0 \/ lng = 0) /\ d.device_offline_position.present
        THEN [lat |-> NumberOrZero(d.device_offline_position.latitude),
              lng |-> NumberOrZero(d.device_offline_position.longitude)]
        ELSE [lat |-> lat, lng |-> lng]

\* the live position, or the offline position when the live one is (0,0)
Position(d) ==
    LET state == StateOf(d)
        lat == NumberOrZero(state.latitude)
        lng == NumberOrZero(state.longitude)
    IN  IF lat = 0 /\ lng = 0 /\ d.device_offline_position.present
        THEN [lat |-> NumberOrZero(d.device_offline_position.latitude),
              lng |-> NumberOrZero(d.device_offline_position.longitude)]
        ELSE [lat |-> lat, lng |-> lng]

\* BatteryPercent that prefers the batteries list whenever it has entries
BatteryPercent_ListFirst(d) ==
    LET b == StateOf(d).battery
        direct == Coalesce(b.capacity_percent, Num(0))
    IN  IF ~b.present THEN 0
        ELSE IF b.isArray /\ Len(b.batteries) > 0
             THEN Coalesce(b.batteries[1], Num(0)).n
             ELSE direct.n

\* the direct percent, or the first entry of the batteries list when it is 0
BatteryPercent(d) ==
    LET b == StateOf(d).battery
        direct == Coalesce(b.capacity_percent, Num(0))
    IN  IF ~b.present THEN 0
        ELSE IF IsZero(direct) /\ b.isArray /\ Len(b.batteries) > 0
             THEN Coalesce(b.batteries[1], Num(0)).n
             ELSE direct.n

Telemetry(d) ==
    LET state == StateOf(d)
    IN  [latitude |-> Position(d).lat,
         longitude |-> Position(d).lng,
         height |-> ToNumber(Or(Or(state.height, state.elevation), Num(0))).n,
         speed |-> NumberOrZero(state.horizontal_speed),
         battery_percent |-> BatteryPercent(d),
         link_signal_quality |-> NumberOrZero(state.sdr_quality),
         flight_time |-> NumberOrZero(state.total_flight_time),
         yaw |-> ToNumber(Or(Or(state.attitude_head, state.heading), Num(0))).n,
         pitch |-> NumberOrZero(state.attitude_pitch),
         roll |-> NumberOrZero(state.attitude_roll)]

\* HasTelemetry that looks at the position only
HasTelemetry_PositionOnly(d) ==
    Position(d).lat # 0 \/ Position(d).lng # 0

\* the telemetry record is built: a non-zero position, or online
HasTelemetry(d) ==
    Position(d).lat # 0 \/ Position(d).lng # 0 \/ IsOnline(d)

\* SerialOf that reads d.sn first
SerialOf_SnFirst(d) == Or(d.sn, d.device_sn)

\* sn = d.device_sn || d.sn
SerialOf(d) == Or(d.device_sn, d.sn)

\* the entry is pushed: it has a host, domain 0 and a serial number
KeepsEntry(item) ==
    /\ item.hasHost
    /\ IsZero(ToNumber(DomainVal(item.host)))
    /\ Truthy(SerialOf(item.host))

\* the callback of rawData.data.list.forEach throws on this entry
EntryThrows(item) ==
    \/ item.isNull
    \/ (item.hasHost /\ DomainThrows(item.host))

\* the Device pushed for a kept entry
DeviceOf(d) ==
    [device_sn |-> ToStr(SerialOf(d)),
     nickname |-> ToStr(Nickname(d)),
     device_model |-> ToStr(ModelName(d)),
     status |-> IsOnline(d),
     hasTelemetry |-> HasTelemetry(d),
     telemetry |-> IF HasTelemetry(d) THEN Telemetry(d) ELSE ZeroTelemetry]

\* processedDevices after the forEach over the list, in list order
RECURSIVE ProcessList(_)
ProcessList(list) ==
    IF list = <<>> THEN <<>>
    ELSE LET rest == ProcessList(Tail(list))
         IN  IF KeepsEntry(Head(list))
             THEN <<DeviceOf(Head(list).host)>> \o rest
             ELSE rest

ListThrows(list) == \E i \in 1..Len(list) : EntryThrows(list[i])

(***************************************************************************)
(* What the network answers to one topology request.                       *)
(*   net      "reject": fetch() rejects; "ok": it resolves to a response   *)
(*   httpOk   response.ok                 status   response.status         *)
(*   text401  the first 50 characters of the error body hold "401"         *)
(*   errCode  errJson.code of a non-2xx body (U: no JSON, or no code)      *)
(*   parses   response.json() of a 2xx body gives a non-null value         *)
(*   code     rawData.code                hasData  rawData.data is truthy  *)
(*   isArray  Array.isArray(rawData.data.list)      list  its entries      *)
(***************************************************************************)
AUTH_CODE == 200401

BaseResponse ==
    [net |-> "ok", httpOk |-> TRUE, status |-> 200, text401 |-> FALSE,
     errCode |-> U, parses |-> TRUE, code |-> Num(0), hasData |-> TRUE,
     isArray |-> TRUE, list |-> <<>>]

\* the outcome of the body of the try block of getProjectTopology:
\* thrown, or the TopologyResponse returned
Thrown == [thrown |-> TRUE, code |-> 0, has401 |-> FALSE, data |-> <<>>]
Returned(code, has401, data) ==
    [thrown |-> FALSE, code |-> code, has401 |-> has401, data |-> data]

\* TopologyTry without the structure check: a body without a list counts
\* as an empty list
TopologyTry_NoStructureCheck(settings, resp) ==
    IF ~settings.urlOk THEN Thrown
    ELSE IF resp.net = "reject" THEN Thrown
    ELSE IF ~resp.httpOk
    THEN Returned(IF Truthy(resp.errCode) THEN resp.errCode.n ELSE resp.status,
                  resp.status = 401 \/ resp.text401, <<>>)
    ELSE IF ~resp.parses \/ ~resp.hasData \/ ~resp.isArray
    THEN Returned(0, FALSE, <<>>)
    ELSE IF ListThrows(resp.list) THEN Thrown
    ELSE Returned(IF Truthy(resp.code) THEN resp.code.n ELSE 0, FALSE,
                  ProcessList(resp.list))

TopologyTry(settings, resp) ==
    IF ~settings.urlOk THEN Thrown                       \* new URL(...) throws
    ELSE IF resp.net = "reject" THEN Thrown              \* await fetch rejects
    ELSE IF ~resp.httpOk
    THEN Returned(IF Truthy(resp.errCode) THEN resp.errCode.n ELSE resp.status,
                  resp.status = 401 \/ resp.text401, <<>>)
    ELSE IF ~resp.parses \/ ~resp.hasData \/ ~resp.isArray THEN Thrown
    ELSE IF ListThrows(resp.list) THEN Thrown
    ELSE Returned(IF Truthy(resp.code) THEN resp.code.n ELSE 0, FALSE,
                  ProcessList(resp.list))

\* the catch block turns every exception into code -1; String(error) of
\* the errors thrown here holds no "401" (the apiUrl of the model, which
\* some engines quote in the error of new URL, holds none either)
getProjectTopology(settings, resp) ==
    LET r == TopologyTry(settings, resp)
    IN  IF r.thrown THEN Returned(-1, FALSE, <<>>) ELSE r

(***************************************************************************)
(* Link health: isLinkHealthy is true, 'unauthorized' or false.            *)
(***************************************************************************)
Healthy == "healthy"
Unauthorized == "unauthorized"
Unhealthy == "unhealthy"
LinkHealth == {Healthy, Unauthorized, Unhealthy}

\* fetchDevices that also calls setDevices(response.data) on a failure
fetchDevices_ClearsOnFailure(r) ==
    IF r.thrown
    THEN [escaped |-> FALSE, publish |-> FALSE, health |-> Unhealthy]
    ELSE IF r.code = 0
    THEN [escaped |-> FALSE, publish |-> TRUE, health |-> Healthy]
    ELSE IF r.code = AUTH_CODE \/ r.has401
    THEN [escaped |-> FALSE, publish |-> TRUE, health |-> Unauthorized]
    ELSE [escaped |-> FALSE, publish |-> TRUE, health |-> Unhealthy]

\* fetchDevices without its final else: other codes leave the health unset
fetchDevices_NoFinalElse(r) ==
    IF r.thrown
    THEN [escaped |-> FALSE, publish |-> FALSE, health |-> Unhealthy]
    ELSE IF r.code = 0
    THEN [escaped |-> FALSE, publish |-> TRUE, health |-> Healthy]
    ELSE IF r.code = AUTH_CODE \/ r.has401
    THEN [escaped |-> FALSE, publish |-> FALSE, health |-> Unauthorized]
    ELSE [escaped |-> FALSE, publish |-> FALSE, health |-> "unset"]

\* the state updates of one fetchDevices call, given what the awaited
\* getProjectTopology produced (r.thrown: the await rejected)
fetchDevices(r) ==
    IF r.thrown
    THEN [escaped |-> FALSE, publish |-> FALSE, health |-> Unhealthy]
    ELSE IF r.code = 0
    THEN [escaped |-> FALSE, publish |-> TRUE, health |-> Healthy]
    ELSE IF r.code = AUTH_CODE \/ r.has401
    THEN [escaped |-> FALSE, publish |-> FALSE, health |-> Unauthorized]
    ELSE [escaped |-> FALSE, publish |-> FALSE, health |-> Unhealthy]

(***************************************************************************)
(* Payloads of the model.                                                  *)
(***************************************************************************)
StateAt(lat, lng, yaw) ==
    [EmptyState EXCEPT !.present = TRUE, !.latitude = Num(lat),
                       !.longitude = Num(lng), !.attitude_head = Num(yaw)]

\* an online aircraft with explicit domain 0 and a live position
Drone(sn, lat, lng, yaw) ==
    [BaseHost EXCEPT !.domain = Num(0), !.device_sn = Str(sn),
                     !.device_online_status = Bool(TRUE),
                     !.device_state = StateAt(lat, lng, yaw)]

\* an offline aircraft, known by its model key, with an offline position
OfflineDrone(sn, lat, lng) ==
    [BaseHost EXCEPT !.device_model_key = Str("0-67-0"), !.sn = Str(sn),
                     !.device_online_status = Num(0),
                     !.device_offline_position =
                         [present |-> TRUE, latitude |-> Num(lat),
                          longitude |-> Num(lng)]]

\* a dock (domain 3)
Dock(sn) == [BaseHost EXCEPT !.domain = Num(3), !.device_sn = Str(sn)]

ListA == <<HostItem(Drone("A", 1, 1, 0))>>
ListB == <<HostItem(Dock("K")), HostItem(Drone("A", 2, 1, 0)),
           HostItem(OfflineDrone("B", 2, 2))>>

RespReject == [BaseResponse EXCEPT !.net = "reject"]
Resp500Text == [BaseResponse EXCEPT !.httpOk = FALSE, !.status = 500]
Resp401Text == [BaseResponse EXCEPT !.httpOk = FALSE, !.status = 401]
Resp403Json ==
    [BaseResponse EXCEPT !.httpOk = FALSE, !.status = 403,
                         !.errCode = Num(AUTH_CODE), !.text401 = TRUE]
Resp200Unparsable == [BaseResponse EXCEPT !.parses = FALSE]
Resp200NoData == [BaseResponse EXCEPT !.hasData = FALSE, !.isArray = FALSE]
Resp200AuthNoData ==
    [BaseResponse EXCEPT !.code = Num(AUTH_CODE), !.hasData = FALSE,
                         !.isArray = FALSE]
Resp200AuthList == [BaseResponse EXCEPT !.code = Num(AUTH_CODE), !.list = ListA]
Resp200ListA == [BaseResponse EXCEPT !.list = ListA]
Resp200ListB == [BaseResponse EXCEPT !.code = U, !.list = ListB]
Resp200NullItem == [BaseResponse EXCEPT !.list = <<NullItem>> \o ListA]
Resp200Code500 == [BaseResponse EXCEPT !.code = Num(500), !.list = ListA]

\* the answers of the model, by number
Responses ==
    <<RespReject, Resp500Text, Resp401Text, Resp403Json, Resp200Unparsable,
      Resp200NoData, Resp200AuthNoData, Resp200AuthList, Resp200ListA,
      Resp200ListB, Resp200NullItem, Resp200Code500>>
ResponseIds == 1..Len(Responses)

\* getProjectTopology over the settings and answers of the model
TopologyOf ==
    [urlOk \in BOOLEAN, i \in ResponseIds |->
        getProjectTopology([urlOk |-> urlOk], Responses[i])]

\* the state updates fetchDevices makes of each of them
UpdatesOf ==
    [urlOk \in BOOLEAN, i \in ResponseIds |->
        fetchDevices(TopologyOf[urlOk, i])]

(***************************************************************************)
(* State of App (the poller part) and of the requests in flight.           *)
(***************************************************************************)
VARIABLES
    appSettings,        \* [ver, urlOk]: the settings object and whether
                        \* new URL(apiUrl) accepts its apiUrl
    devices,            \* the device snapshot
    isLoadingDevices,
    lastPollTime,
    isLinkHealthy,
    intervalId,         \* 0: the polling effect has not run; else the
                        \* number of the running interval timer
    inflight,           \* the fetchDevices calls awaiting getProjectTopology
    nextSeq,            \* issue number of the next fetchDevices call
    now,                \* Date.now()
    lastDone,           \* history: the fetchDevices call that completed last
    newest,             \* history: [seq, data] of the completed successful
                        \* call that was issued last
    lastSuccData        \* history: data of the successful call that
                        \* completed last

pollVars ==
    <<appSettings, devices, isLoadingDevices, lastPollTime, isLinkHealthy,
      intervalId, inflight, nextSeq, now, lastDone, newest, lastSuccData>>

(***************************************************************************)
(* State of MapPicker (the device markers).                                *)
(***************************************************************************)
VARIABLES
    markersMap,         \* deviceMarkersRef.current
    layers,             \* the handles of the markers added to the map
    nextHandle,         \* the handle of the next L.marker
    mpDevices,          \* the devices prop of the last run of the effect
    lastOps,            \* history: the marker calls of the last run
    prevDevices,        \* history: the devices prop of the run before
    prevMarkers,        \* history: markersMap when the last run started
    passes              \* history: number of runs so far

reconVars ==
    <<markersMap, layers, nextHandle, mpDevices, lastOps, prevDevices,
      prevMarkers, passes>>

(***************************************************************************)
(* One poll cycle over a given host list: the list the upstream answers    *)
(* with, and what getProjectTopology returned for it.                      *)
(***************************************************************************)
VARIABLES
    hostList,           \* rawData.data.list of the answer
    fetched,            \* the cycle over hostList has run
    topology            \* the TopologyResponse the cycle got

normVars == <<hostList, fetched, topology>>

(***************************************************************************)
(* The operator's side of App: the selection, the target coordinate, the   *)
(* view recentering handed to MapPicker, and the alert workflow.           *)
(***************************************************************************)
VARIABLES
    selectedDeviceSn,   \* useState<string | null>(null)
    flyTo,              \* useState<{lat, lng} | undefined>(undefined)
    latitude,           \* useState(DEFAULT_LAT), the target coordinate
    longitude,          \* useState(DEFAULT_LNG)
    status,             \* useState(ConnectionStatus.IDLE)
    alertsInFlight,     \* sendWorkflowAlert promises not settled yet
    resetTimers,        \* pending setTimeout(..., 2000) callbacks
    alertsDone,         \* history: an alert attempt has completed
    mapFlights,         \* history: map.flyTo calls of the flyTo effect in
                        \* the last step
    lastHandler         \* history: the handler the last step ran

uiVars ==
    <<selectedDeviceSn, flyTo, latitude, longitude, status, alertsInFlight,
      resetTimers, alertsDone, mapFlights, lastHandler>>

NoneDone ==
    [seq |-> 0, settings |-> [ver |-> 0, urlOk |-> TRUE],
     isBackground |-> FALSE, resp |-> 0]

PollInit ==
    /\ appSettings = [ver |-> 0, urlOk |-> TRUE]
    /\ devices = <<>>
    /\ isLoadingDevices = FALSE
    /\ lastPollTime = 0
    /\ isLinkHealthy = Unhealthy
    /\ intervalId = 0
    /\ inflight = {}
    /\ nextSeq = 1
    /\ now = 1
    /\ lastDone = NoneDone
    /\ newest = [seq |-> 0, data |-> <<>>]
    /\ lastSuccData = <<>>

\* the synchronous part of fetchDevices(isBackground) of the closure over
\* `settings`: the loading flag, then the request is sent
Issue(settings, isBackground) ==
    /\ nextSeq <= MaxFetches
    /\ inflight' = inflight \cup
            {[seq |-> nextSeq, settings |-> settings,
              isBackground |-> isBackground]}
    /\ nextSeq' = nextSeq + 1
    /\ isLoadingDevices' = IF isBackground THEN isLoadingDevices ELSE TRUE

\* the polling effect runs for the first time
Mount ==
    /\ intervalId = 0
    /\ Issue(appSettings, FALSE)
    /\ intervalId' = 1
    /\ UNCHANGED <<appSettings, devices, lastPollTime, isLinkHealthy, now,
                   lastDone, newest, lastSuccData, reconVars, normVars,
                   uiVars>>

\* the interval timer fires: fetchDevices(true)
TimerFire ==
    /\ intervalId # 0
    /\ Issue(appSettings, TRUE)
    /\ UNCHANGED <<appSettings, devices, lastPollTime, isLinkHealthy,
                   intervalId, now, lastDone, newest, lastSuccData,
                   reconVars, normVars, uiVars>>

\* the refresh button of the device list: fetchDevices(false)
Refresh ==
    /\ intervalId # 0
    /\ Issue(appSettings, FALSE)
    /\ UNCHANGED <<appSettings, devices, lastPollTime, isLinkHealthy,
                   intervalId, now, lastDone, newest, lastSuccData,
                   reconVars, normVars, uiVars>>

\* the settings dialog saves: fetchDevices is rebuilt over the new settings,
\* the effect's cleanup clears the interval, and the effect runs again
SaveSettings(urlOk) ==
    /\ intervalId # 0
    /\ appSettings.ver < MaxRestarts
    /\ appSettings' = [ver |-> appSettings.ver + 1, urlOk |-> urlOk]
    /\ Issue(appSettings', FALSE)
    /\ intervalId' = intervalId + 1
    /\ UNCHANGED <<devices, lastPollTime, isLinkHealthy, now, lastDone,
                   newest, lastSuccData, reconVars, normVars, uiVars>>

\* Apply with a sequence guard: the completion of a call issued before one
\* already applied is ignored
Apply_SequenceGuard(f, resp) ==
    LET r == TopologyOf[f.settings.urlOk, resp]
        out == UpdatesOf[f.settings.urlOk, resp]
        stale == f.seq < lastDone.seq
    IN  /\ devices' = IF out.publish /\ ~stale THEN r.data ELSE devices
        /\ lastPollTime' = IF out.publish /\ ~stale THEN now ELSE lastPollTime
        /\ isLinkHealthy' = IF stale THEN isLinkHealthy ELSE out.health
        /\ isLoadingDevices' = IF f.isBackground THEN isLoadingDevices
                                                 ELSE FALSE

\* the state updates of the call f when its request ends with answer resp
Apply(f, resp) ==
    LET r == TopologyOf[f.settings.urlOk, resp]
        out == UpdatesOf[f.settings.urlOk, resp]
    IN  /\ devices' = IF out.publish THEN r.data ELSE devices
        /\ lastPollTime' = IF out.publish THEN now ELSE lastPollTime
        /\ isLinkHealthy' = out.health
        /\ isLoadingDevices' = IF f.isBackground THEN isLoadingDevices
                                                 ELSE FALSE

\* the history of the completion of f with answer resp
Record(f, resp) ==
    LET r == TopologyOf[f.settings.urlOk, resp]
    IN  /\ lastDone' = [seq |-> f.seq, settings |-> f.settings,
                        isBackground |-> f.isBackground, resp |-> resp]
        /\ newest' = IF r.code = 0 /\ f.seq > newest.seq
                     THEN [seq |-> f.seq, data |-> r.data] ELSE newest
        /\ lastSuccData' = IF r.code = 0 THEN r.data ELSE lastSuccData

\* the request of the call f ends with answer resp and the call runs to its end
Complete(f, resp) ==
    /\ f \in inflight
    /\ inflight' = inflight \ {f}
    /\ Apply(f, resp)
    /\ Record(f, resp)
    /\ UNCHANGED <<appSettings, intervalId, nextSeq, now, reconVars, normVars,
                   uiVars>>

\* time passes
Tick ==
    /\ now < MaxTime
    /\ now' = now + 1
    /\ UNCHANGED <<appSettings, devices, isLoadingDevices, lastPollTime,
                   isLinkHealthy, intervalId, inflight, nextSeq, lastDone,
                   newest, lastSuccData, reconVars, normVars, uiVars>>

(***************************************************************************)
(* MapPicker: the device marker effect.  A marker is the L.Marker object   *)
(* with handle h; deviceMarkersRef maps serial numbers to markers.         *)
(***************************************************************************)
\* number of runs of the device marker effect in one behaviour
MaxPasses == 3

\* the device passes the test that guards the marker code
Renderable(device) ==
    /\ device.hasTelemetry
    /\ (device.telemetry.latitude # 0 \/ device.telemetry.longitude # 0)

\* the fields the popup text shows
PopupContent(device) ==
    [nickname |-> device.nickname, device_model |-> device.device_model,
     status |-> device.status,
     lat |-> device.telemetry.latitude, lon |-> device.telemetry.longitude,
     speed |-> device.telemetry.speed, height |-> device.telemetry.height,
     batt |-> device.telemetry.battery_percent,
     m |-> device.telemetry.flight_time \div 60,
     s |-> device.telemetry.flight_time % 60,
     sig |-> device.telemetry.link_signal_quality, sn |-> device.device_sn]

\* createIcon(): colour and opacity by status, rotation by yaw
Icon(device) == [online |-> device.status, yaw |-> device.telemetry.yaw]

ZIndexOffset(device) == IF device.status THEN 1000 ELSE 500

Op(name, sn, h) == [op |-> name, sn |-> sn, h |-> h]

\* UpdateMarker without the guard of setLatLng
UpdateMarker_AlwaysSetLatLng(st, device) ==
    LET sn == device.device_sn
        marker == st.markers[sn]
    IN  [st EXCEPT
            !.markers = [st.markers EXCEPT ![sn] =
                [marker EXCEPT !.lat = device.telemetry.latitude,
                               !.lng = device.telemetry.longitude,
                               !.icon = Icon(device),
                               !.popup = PopupContent(device),
                               !.z = ZIndexOffset(device)]],
            !.ops = st.ops
                \o <<Op("setLatLng", sn, marker.h)>>
                \o <<Op("setIcon", sn, marker.h)>>
                \o (IF marker.popupOpen
                    THEN <<Op("setContent", sn, marker.h)>>
                    ELSE <<Op("bindPopup", sn, marker.h)>>)
                \o <<Op("setZIndexOffset", sn, marker.h)>>]

\* UpdateMarker that builds a new L.marker for the serial and stores it in
\* the table, leaving the old one on the map
UpdateMarker_NewMarker(st, device) ==
    LET sn == device.device_sn
        marker == [h |-> st.nextH,
                   lat |-> device.telemetry.latitude,
                   lng |-> device.telemetry.longitude,
                   icon |-> Icon(device), z |-> ZIndexOffset(device),
                   popup |-> PopupContent(device), popupOpen |-> FALSE]
    IN  [st EXCEPT
            !.markers = [st.markers EXCEPT ![sn] = marker],
            !.layers = st.layers \cup {st.nextH},
            !.nextH = st.nextH + 1,
            !.ops = st.ops \o <<Op("create", sn, st.nextH)>>]

\* UpdateMarker that rebinds the popup whether it is open or not: the
\* marker gets a new, closed popup
UpdateMarker_AlwaysBind(st, device) ==
    LET sn == device.device_sn
        marker == st.markers[sn]
        lat == device.telemetry.latitude
        lon == device.telemetry.longitude
        moved == marker.lat # lat \/ marker.lng # lon
    IN  [st EXCEPT
            !.markers = [st.markers EXCEPT ![sn] =
                [marker EXCEPT !.lat = lat, !.lng = lon,
                               !.icon = Icon(device),
                               !.popup = PopupContent(device),
                               !.popupOpen = FALSE,
                               !.z = ZIndexOffset(device)]],
            !.ops = st.ops
                \o (IF moved THEN <<Op("setLatLng", sn, marker.h)>> ELSE <<>>)
                \o <<Op("setIcon", sn, marker.h)>>
                \o <<Op("bindPopup", sn, marker.h)>>
                \o <<Op("setZIndexOffset", sn, marker.h)>>]

\* UpdateMarker whose guard of setLatLng compares the latitude only
UpdateMarker_LatOnly(st, device) ==
    LET sn == device.device_sn
        marker == st.markers[sn]
        lat == device.telemetry.latitude
        lon == device.telemetry.longitude
        moved == marker.lat # lat
    IN  [st EXCEPT
            !.markers = [st.markers EXCEPT ![sn] =
                [marker EXCEPT !.lat = lat, !.lng = lon,
                               !.icon = Icon(device),
                               !.popup = PopupContent(device),
                               !.z = ZIndexOffset(device)]],
            !.ops = st.ops
                \o (IF moved THEN <<Op("setLatLng", sn, marker.h)>> ELSE <<>>)
                \o <<Op("setIcon", sn, marker.h)>>
                \o (IF marker.popupOpen
                    THEN <<Op("setContent", sn, marker.h)>>
                    ELSE <<Op("bindPopup", sn, marker.h)>>)
                \o <<Op("setZIndexOffset", sn, marker.h)>>]

\* the branch for a serial that has a marker in the table
UpdateMarker(st, device) ==
    LET sn == device.device_sn
        marker == st.markers[sn]
        lat == device.telemetry.latitude
        lon == device.telemetry.longitude
        moved == marker.lat # lat \/ marker.lng # lon
    IN  [st EXCEPT
            !.markers = [st.markers EXCEPT ![sn] =
                [marker EXCEPT !.lat = lat, !.lng = lon,
                               !.icon = Icon(device),
                               !.popup = PopupContent(device),
                               !.z = ZIndexOffset(device)]],
            !.ops = st.ops
                \o (IF moved THEN <<Op("setLatLng", sn, marker.h)>> ELSE <<>>)
                \o <<Op("setIcon", sn, marker.h)>>
                \o (IF marker.popupOpen
                    THEN <<Op("setContent", sn, marker.h)>>
                    ELSE <<Op("bindPopup", sn, marker.h)>>)
                \o <<Op("setZIndexOffset", sn, marker.h)>>]

\* the branch for a serial without a marker: L.marker, bindPopup, addTo, set
CreateMarker(st, device) ==
    LET sn == device.device_sn
        marker == [h |-> st.nextH,
                   lat |-> device.telemetry.latitude,
                   lng |-> device.telemetry.longitude,
                   icon |-> Icon(device), z |-> ZIndexOffset(device),
                   popup |-> PopupContent(device), popupOpen |-> FALSE]
    IN  [st EXCEPT
            !.markers = (sn :> marker) @@ st.markers,
            !.layers = st.layers \cup {st.nextH},
            !.nextH = st.nextH + 1,
            !.ops = st.ops \o <<Op("create", sn, st.nextH)>>]

\* PlaceDevice that replaces the marker of a known serial by a new one
PlaceDevice_Recreate(st, device) ==
    IF ~Renderable(device) THEN st
    ELSE LET sn == device.device_sn
             seen == [st EXCEPT !.active = st.active \cup {sn}]
         IN  IF sn \in DOMAIN st.markers
             THEN CreateMarker(
                    [seen EXCEPT
                        !.markers = [x \in DOMAIN st.markers \ {sn} |->
                                        st.markers[x]],
                        !.layers = st.layers \ {st.markers[sn].h},
                        !.ops = st.ops
                            \o <<Op("remove", sn, st.markers[sn].h)>>],
                    device)
             ELSE CreateMarker(seen, device)

\* the body of devices.forEach for one device
PlaceDevice(st, device) ==
    IF ~Renderable(device) THEN st
    ELSE LET seen == [st EXCEPT !.active = st.active \cup {device.device_sn}]
         IN  IF device.device_sn \in DOMAIN st.markers
             THEN UpdateMarker(seen, device)
             ELSE CreateMarker(seen, device)

RECURSIVE PlaceDevices(_, _)
PlaceDevices(st, devs) ==
    IF devs = <<>> THEN st
    ELSE PlaceDevices(PlaceDevice(st, Head(devs)), Tail(devs))

\* markersMap.forEach: remove and delete the markers of inactive serials
RemoveInactive(st) ==
    LET gone == DOMAIN st.markers \ st.active
        goneSeq == CHOOSE q \in [1..Cardinality(gone) -> gone] :
                        \A sn \in gone : \E k \in DOMAIN q : q[k] = sn
    IN  [st EXCEPT
            !.markers = [sn \in DOMAIN st.markers \ gone |-> st.markers[sn]],
            !.layers = st.layers \ {st.markers[sn].h : sn \in gone},
            !.ops = st.ops \o
                [k \in 1..Cardinality(gone) |->
                    Op("remove", goneSeq[k], st.markers[goneSeq[k]].h)]]

\* one run of the effect over the devices prop
ReconcilePass(markers, onMap, nextH, devs) ==
    RemoveInactive(
        PlaceDevices([markers |-> markers, layers |-> onMap,
                      nextH |-> nextH, ops |-> <<>>, active |-> {}], devs))

(***************************************************************************)
(* Snapshots handed to MapPicker: what the poller publishes for these      *)
(* listings.                                                               *)
(***************************************************************************)
\* online at (0,0): telemetry without a position fix
OnlineNoFix(sn) ==
    [BaseHost EXCEPT !.domain = Num(0), !.device_sn = Str(sn),
                     !.device_online_status = Num(1)]

\* offline without any position: no telemetry
Silent(sn) == [BaseHost EXCEPT !.domain = Num(0), !.device_sn = Str(sn)]

ReconLists ==
    {<<>>,
     <<HostItem(Drone("A", 1, 1, 0)), HostItem(Drone("B", 1, 2, 0)),
       HostItem(OfflineDrone("C", 2, 2))>>,
     <<HostItem(Drone("B", 1, 2, 0)), HostItem(Drone("C", 2, 1, 90)),
       HostItem(Drone("D", 3, 3, 0))>>,
     <<HostItem(Drone("A", 1, 1, 0)), HostItem(Drone("A", 2, 1, 0))>>,
     <<HostItem(OnlineNoFix("A")), HostItem(Silent("B")),
       HostItem(Drone("D", 3, 3, 0))>>}

Snapshots == {ProcessList(list) : list \in ReconLists}

ReconInit ==
    /\ markersMap = <<>>
    /\ layers = {}
    /\ nextHandle = 1
    /\ mpDevices = <<>>
    /\ lastOps = <<>>
    /\ prevDevices = <<>>
    /\ prevMarkers = <<>>
    /\ passes = 0

\* App renders MapPicker with a new devices array and the effect runs
DevicesEffect(snap) ==
    LET st == ReconcilePass(markersMap, layers, nextHandle, snap)
    IN  /\ passes < MaxPasses
        /\ markersMap' = st.markers
        /\ layers' = st.layers
        /\ nextHandle' = st.nextH
        /\ lastOps' = st.ops
        /\ mpDevices' = snap
        /\ prevDevices' = mpDevices
        /\ prevMarkers' = markersMap
        /\ passes' = passes + 1
        /\ UNCHANGED <<pollVars, normVars, uiVars>>

\* the user clicks a device marker: its popup opens, an open one closes
OpenPopup(sn) ==
    /\ sn \in DOMAIN markersMap
    /\ ~markersMap[sn].popupOpen
    /\ markersMap' = [x \in DOMAIN markersMap |->
                        [markersMap[x] EXCEPT !.popupOpen = (x = sn)]]
    /\ UNCHANGED <<layers, nextHandle, mpDevices, lastOps, prevDevices,
                   prevMarkers, passes, pollVars, normVars, uiVars>>

\* the user closes the open popup
ClosePopup(sn) ==
    /\ sn \in DOMAIN markersMap
    /\ markersMap[sn].popupOpen
    /\ markersMap' = [markersMap EXCEPT ![sn].popupOpen = FALSE]
    /\ UNCHANGED <<layers, nextHandle, mpDevices, lastOps, prevDevices,
                   prevMarkers, passes, pollVars, normVars, uiVars>>

(***************************************************************************)
(* Selection, target coordinate and alert workflow of App.  In this part   *)
(* a coordinate is a fixed-point number counting units of 10^-7 degree,    *)
(* so that rounding to six decimal places changes it.                      *)
(***************************************************************************)
MaxAlerts == 2

\* selectedDeviceSn === null
NullSn == "(null)"

\* flyTo === undefined
NoFlyTo == [set |-> FALSE, lat |-> 0, lng |-> 0]

\* the initial target of ./constants, in units of 10^-7 degree
DEFAULT_LAT == 500
DEFAULT_LNG == 700

Abs(x) == IF x < 0 THEN -x ELSE x

\* Number(x.toFixed(6)): the nearest multiple of 10^-6, the larger
\* magnitude when two are equally near
ToFixed6(x) ==
    LET r == ((Abs(x) + 5) \div 10) * 10
    IN  IF x < 0 THEN -r ELSE r

\* devices.find(d => d.device_sn === selectedDeviceSn): the index of the
\* first match, 0 for undefined
SelectedIndex(devs, sn) ==
    LET hits == {i \in DOMAIN devs : devs[i].device_sn = sn}
    IN  IF hits = {} THEN 0
        ELSE CHOOSE i \in hits : \A j \in hits : i <= j

\* the effect of MapPicker on [flyTo]: it runs when App hands a new flyTo
\* object over, and calls map.flyTo when that object is defined
FlyToEffect(changed, value) ==
    IF changed /\ value.set
    THEN <<[lat |-> value.lat, lng |-> value.lng, zoom |-> 19]>>
    ELSE <<>>

UiInit ==
    /\ selectedDeviceSn = NullSn
    /\ flyTo = NoFlyTo
    /\ latitude = DEFAULT_LAT
    /\ longitude = DEFAULT_LNG
    /\ status = "IDLE"
    /\ alertsInFlight = 0
    /\ resetTimers = 0
    /\ alertsDone = FALSE
    /\ mapFlights = <<>>
    /\ lastHandler = "none"

alertVars == <<status, alertsInFlight, resetTimers, alertsDone>>

\* DeviceList hands over a device of the snapshot it renders
handleDeviceSelect(device) ==
    LET t == device.telemetry
        flies == device.hasTelemetry /\ (t.latitude # 0 \/ t.longitude # 0)
    IN  /\ selectedDeviceSn' = device.device_sn
        /\ flyTo' = IF flies
                    THEN [set |-> TRUE, lat |-> t.latitude,
                          lng |-> t.longitude]
                    ELSE flyTo
        /\ mapFlights' = FlyToEffect(flies, flyTo')
        /\ lastHandler' = "handleDeviceSelect"
        /\ UNCHANGED <<latitude, longitude, alertVars, pollVars, reconVars,
                       normVars>>

\* the button of the selected-device panel, rendered while selectedDevice
\* is defined
Deselect ==
    /\ SelectedIndex(devices, selectedDeviceSn) # 0
    /\ selectedDeviceSn' = NullSn
    /\ mapFlights' = FlyToEffect(FALSE, flyTo)
    /\ lastHandler' = "deselect"
    /\ UNCHANGED <<flyTo, latitude, longitude, alertVars, pollVars,
                   reconVars, normVars>>

\* variant: copies whenever the selection resolves, telemetry or not
syncToDrone_AnySelected ==
    LET i == SelectedIndex(devices, selectedDeviceSn)
        copies == i # 0
    IN  /\ latitude' = IF copies
                       THEN ToFixed6(devices[i].telemetry.latitude)
                       ELSE latitude
        /\ longitude' = IF copies
                        THEN ToFixed6(devices[i].telemetry.longitude)
                        ELSE longitude
        /\ mapFlights' = FlyToEffect(FALSE, flyTo)
        /\ lastHandler' = "syncToDrone"
        /\ UNCHANGED <<selectedDeviceSn, flyTo, alertVars, pollVars,
                       reconVars, normVars>>

\* variant: copies the position the device had when it was selected
syncToDrone_SelectionTime ==
    LET i == SelectedIndex(devices, selectedDeviceSn)
        copies == i # 0 /\ devices[i].hasTelemetry
    IN  /\ latitude' = IF copies /\ flyTo.set THEN ToFixed6(flyTo.lat)
                       ELSE latitude
        /\ longitude' = IF copies /\ flyTo.set THEN ToFixed6(flyTo.lng)
                        ELSE longitude
        /\ mapFlights' = FlyToEffect(FALSE, flyTo)
        /\ lastHandler' = "syncToDrone"
        /\ UNCHANGED <<selectedDeviceSn, flyTo, alertVars, pollVars,
                       reconVars, normVars>>

\* variant: writes the rounded position back into the snapshot entry
syncToDrone_RoundsSnapshot ==
    LET i == SelectedIndex(devices, selectedDeviceSn)
        copies == i # 0 /\ devices[i].hasTelemetry
        lat6 == ToFixed6(devices[i].telemetry.latitude)
        lng6 == ToFixed6(devices[i].telemetry.longitude)
    IN  /\ latitude' = IF copies THEN lat6 ELSE latitude
        /\ longitude' = IF copies THEN lng6 ELSE longitude
        /\ devices' = IF copies
                      THEN [devices EXCEPT ![i].telemetry.latitude = lat6,
                                           ![i].telemetry.longitude = lng6]
                      ELSE devices
        /\ mapFlights' = FlyToEffect(FALSE, flyTo)
        /\ lastHandler' = "syncToDrone"
        /\ UNCHANGED <<selectedDeviceSn, flyTo, alertVars, appSettings,
                       isLoadingDevices, lastPollTime, isLinkHealthy,
                       intervalId, inflight, nextSeq, now, lastDone, newest,
                       lastSuccData, reconVars, normVars>>

\* the handler of the copy-to-target button; it tests
\* selectedDevice?.telemetry itself
syncToDrone ==
    LET i == SelectedIndex(devices, selectedDeviceSn)
        copies == i # 0 /\ devices[i].hasTelemetry
    IN  /\ latitude' = IF copies
                       THEN ToFixed6(devices[i].telemetry.latitude)
                       ELSE latitude
        /\ longitude' = IF copies
                        THEN ToFixed6(devices[i].telemetry.longitude)
                        ELSE longitude
        /\ mapFlights' = FlyToEffect(FALSE, flyTo)
        /\ lastHandler' = "syncToDrone"
        /\ UNCHANGED <<selectedDeviceSn, flyTo, alertVars, pollVars,
                       reconVars, normVars>>

\* a right click on the map, the end of a drag of the target marker, or
\* a search hit
handleLocationSelect(lat, lng) ==
    /\ latitude' = lat
    /\ longitude' = lng
    /\ mapFlights' = FlyToEffect(FALSE, flyTo)
    /\ lastHandler' = "handleLocationSelect"
    /\ UNCHANGED <<selectedDeviceSn, flyTo, alertVars, pollVars, reconVars,
                   normVars>>

\* variant: the view follows the selected device on every publication
PollCycle_Follows(list) ==
    LET r == getProjectTopology(appSettings,
                                [BaseResponse EXCEPT !.list = list])
        out == fetchDevices(r)
        devs == IF out.publish THEN r.data ELSE devices
        i == SelectedIndex(devs, selectedDeviceSn)
        flies == out.publish /\ i # 0 /\ devs[i].hasTelemetry
                 /\ (devs[i].telemetry.latitude # 0
                     \/ devs[i].telemetry.longitude # 0)
    IN  /\ devices' = devs
        /\ lastPollTime' = IF out.publish THEN now ELSE lastPollTime
        /\ isLinkHealthy' = out.health
        /\ flyTo' = IF flies
                    THEN [set |-> TRUE, lat |-> devs[i].telemetry.latitude,
                          lng |-> devs[i].telemetry.longitude]
                    ELSE flyTo
        /\ mapFlights' = FlyToEffect(flies, flyTo')
        /\ lastHandler' = "fetchDevices"
        /\ UNCHANGED <<appSettings, isLoadingDevices, intervalId, inflight,
                       nextSeq, now, lastDone, newest, lastSuccData,
                       selectedDeviceSn, latitude, longitude,
                       alertVars, reconVars, normVars>>

\* variant: a publication without the selected serial clears the selection
PollCycle_ClearsDangling(list) ==
    LET r == getProjectTopology(appSettings,
                                [BaseResponse EXCEPT !.list = list])
        out == fetchDevices(r)
        devs == IF out.publish THEN r.data ELSE devices
    IN  /\ devices' = devs
        /\ lastPollTime' = IF out.publish THEN now ELSE lastPollTime
        /\ isLinkHealthy' = out.health
        /\ selectedDeviceSn' =
               IF SelectedIndex(devs, selectedDeviceSn) = 0 THEN NullSn
               ELSE selectedDeviceSn
        /\ mapFlights' = FlyToEffect(FALSE, flyTo)
        /\ lastHandler' = "fetchDevices"
        /\ UNCHANGED <<appSettings, isLoadingDevices, intervalId, inflight,
                       nextSeq, now, lastDone, newest, lastSuccData,
                       flyTo, latitude, longitude,
                       alertVars, reconVars, normVars>>

\* a whole background cycle fetchDevices(true), answered with `list`
PollCycle(list) ==
    LET r == getProjectTopology(appSettings,
                                [BaseResponse EXCEPT !.list = list])
        out == fetchDevices(r)
    IN  /\ devices' = IF out.publish THEN r.data ELSE devices
        /\ lastPollTime' = IF out.publish THEN now ELSE lastPollTime
        /\ isLinkHealthy' = out.health
        /\ mapFlights' = FlyToEffect(FALSE, flyTo)
        /\ lastHandler' = "fetchDevices"
        /\ UNCHANGED <<appSettings, isLoadingDevices, intervalId, inflight,
                       nextSeq, now, lastDone, newest, lastSuccData,
                       selectedDeviceSn, flyTo, latitude, longitude,
                       alertVars, reconVars, normVars>>

\* the trigger button; the request leaves with the payload of this render
handleTrigger ==
    /\ IF status = "SENDING"
       THEN UNCHANGED alertVars
       ELSE /\ alertsInFlight + resetTimers < MaxAlerts
            /\ status' = "SENDING"
            /\ alertsInFlight' = alertsInFlight + 1
            /\ UNCHANGED <<resetTimers, alertsDone>>
    /\ mapFlights' = FlyToEffect(FALSE, flyTo)
    /\ lastHandler' = "handleTrigger"
    /\ UNCHANGED <<selectedDeviceSn, flyTo, latitude, longitude, pollVars,
                   reconVars, normVars>>

\* sendWorkflowAlert settles: the try or the catch branch, then finally
\* arms the 2000 ms timer
AlertSettles(ok) ==
    /\ alertsInFlight > 0
    /\ status' = IF ok THEN "SUCCESS" ELSE "ERROR"
    /\ alertsInFlight' = alertsInFlight - 1
    /\ resetTimers' = resetTimers + 1
    /\ alertsDone' = TRUE
    /\ mapFlights' = FlyToEffect(FALSE, flyTo)
    /\ lastHandler' = "alertSettles"
    /\ UNCHANGED <<selectedDeviceSn, flyTo, latitude, longitude, pollVars,
                   reconVars, normVars>>

\* a timer of an attempt fires:
\* setStatus(prev => prev === SENDING ? IDLE : prev)
ResetTimerFires ==
    /\ resetTimers > 0
    /\ resetTimers' = resetTimers - 1
    /\ status' = IF status = "SENDING" THEN "IDLE" ELSE status
    /\ mapFlights' = FlyToEffect(FALSE, flyTo)
    /\ lastHandler' = "resetTimer"
    /\ UNCHANGED <<alertsInFlight, alertsDone, selectedDeviceSn, flyTo,
                   latitude, longitude, pollVars, reconVars, normVars>>

\* the host lists the upstream answers with in this part
UiLists ==
    {<<HostItem(Drone("A", 14, -26, 0)), HostItem(Silent("B")),
       HostItem(OnlineNoFix("C"))>>,
     <<HostItem(Drone("A", 26, -26, 0))>>,
     <<NullItem>>}

\* the coordinates the operator picks on the map
TargetInputs == {<<33, 44>>}

(***************************************************************************)
(* Specifications: the poller, and the marker effect of MapPicker.         *)
(***************************************************************************)
vars == <<pollVars, reconVars, normVars, uiVars>>

NormInit ==
    /\ hostList = <<>>
    /\ fetched = FALSE
    /\ topology = Returned(0, FALSE, <<>>)

Init == PollInit /\ ReconInit /\ NormInit /\ UiInit

Next ==
    \/ Mount
    \/ TimerFire
    \/ Refresh
    \/ \E urlOk \in BOOLEAN : SaveSettings(urlOk)
    \/ \E f \in inflight : \E resp \in ResponseIds : Complete(f, resp)
    \/ Tick

Spec == Init /\ [][Next]_vars

NextRecon ==
    \/ \E snap \in Snapshots : DevicesEffect(snap)
    \/ \E sn \in DOMAIN markersMap : OpenPopup(sn)
    \/ \E sn \in DOMAIN markersMap : ClosePopup(sn)

SpecRecon == Init /\ [][NextRecon]_vars

(***************************************************************************)
(* One poll cycle over a host list (specification SpecNorm): the request   *)
(* is answered with HTTP 200 and a body {code: 0, data: {list: hostList}}. *)
(***************************************************************************)
\* longest host list of ShortLists
MaxLen == 2

\* d.domain, d.device_model?.domain and d.device_model_key of an entry
DomainCases ==
    {<<Num(0), U, U>>, <<Num(3), U, U>>, <<Num(0), Num(3), Str("3-1-0")>>,
     <<Str("0"), U, U>>, <<U, Num(0), U>>, <<U, Num(3), U>>,
     <<N, Num(0), U>>, <<U, U, Str("0-67-0")>>, <<U, U, Str("3-1-0")>>,
     <<N, U, Str("0-67-0")>>, <<U, U, Str("abc")>>, <<U, U, Num(67)>>,
     <<U, U, U>>, <<U, U, N>>, <<N, U, U>>, <<U, N, U>>, <<N, N, N>>,
     <<U, N, Str("3-1-0")>>}

\* d.device_sn and d.sn of an entry
SerialValues == {U, N, Str(""), Num(0), Str("A"), Str("B"), Num(1)}

\* d.device_online_status of an entry
OnlineValues == {U, Bool(TRUE), Bool(FALSE), Num(1), Num(0), Str("1")}

\* d.device_state.battery of an entry
BatteryCases ==
    {EmptyState.battery}
    \cup {[present |-> TRUE, capacity_percent |-> direct,
           isArray |-> FALSE, batteries |-> <<>>] : direct \in {U, N, Num(0), Num(40)}}
    \cup {[present |-> TRUE, capacity_percent |-> direct,
           isArray |-> TRUE, batteries |-> list] :
            direct \in {U, N, Num(0), Num(40)},
            list \in {<<>>, <<Num(55)>>, <<Num(0), Num(55)>>, <<U>>}}

\* d.device_state of an entry
StateCases ==
    {EmptyState}
    \cup {[EmptyState EXCEPT !.present = TRUE, !.latitude = lat,
                             !.longitude = lng, !.battery = b] :
            lat \in {U, Num(0), Num(1)}, lng \in {Num(0), Num(2)},
            b \in BatteryCases}

\* d.device_offline_position of an entry
OfflineCases ==
    {NoOffline,
     [present |-> TRUE, latitude |-> Num(0), longitude |-> Num(0)],
     [present |-> TRUE, latitude |-> Num(3), longitude |-> Num(3)],
     [present |-> TRUE, latitude |-> U, longitude |-> Num(3)]}

\* host records that differ in their classification fields
DomainHosts ==
    {[Drone("A", 1, 2, 0) EXCEPT !.domain = dc[1], !.modelDomain = dc[2],
                                 !.device_model_key = dc[3]] :
        dc \in DomainCases}

\* host records that differ in their serial number fields
SerialHosts ==
    {[Drone("A", 1, 2, 0) EXCEPT !.device_sn = a, !.sn = b] :
        a \in SerialValues, b \in SerialValues}

\* host records that differ in their status, state and offline position
TelemetryHosts ==
    {[Drone("A", 1, 2, 0) EXCEPT !.device_online_status = online,
                                 !.device_state = state,
                                 !.device_offline_position = off] :
        online \in OnlineValues, state \in StateCases, off \in OfflineCases}

\* host records that differ in the aliased fields of their state
AliasHosts ==
    {[Drone("A", 1, 2, 0) EXCEPT
            !.device_state =
                [EmptyState EXCEPT !.present = TRUE, !.latitude = Num(1),
                                   !.longitude = Num(2), !.height = h,
                                   !.elevation = e, !.attitude_head = ah,
                                   !.heading = hd]] :
        h \in {U, Num(0), Num(5)}, e \in {U, Num(0), Num(7)},
        ah \in {U, Num(0), Num(90)}, hd \in {U, Num(0), Num(45)}}

RawHosts == DomainHosts \cup SerialHosts \cup TelemetryHosts \cup AliasHosts

\* the entries of the short lists: unusable ones and aircraft, two of them
\* with the same serial number
ListItems ==
    {NullItem, NoHostItem, HostItem(Dock("K")),
     HostItem([Drone("C", 1, 1, 0) EXCEPT !.domain = U,
                                          !.device_model_key = Num(67)]),
     HostItem([Drone("C", 1, 1, 0) EXCEPT !.device_sn = U]),
     HostItem(Drone("A", 1, 1, 0)), HostItem(Drone("A", 2, 1, 0)),
     HostItem(Drone("B", 1, 2, 0))}

ShortLists == UNION {[1..k -> ListItems] : k \in 0..MaxLen}

\* the host lists of the model
RawLists == {<<HostItem(d)>> : d \in RawHosts} \cup ShortLists

InitNorm ==
    /\ PollInit
    /\ ReconInit
    /\ UiInit
    /\ hostList \in RawLists
    /\ fetched = FALSE
    /\ topology = Returned(0, FALSE, <<>>)

\* fetchDevices(false) right after the mount, answered with hostList
FetchList ==
    LET r == getProjectTopology(appSettings,
                                [BaseResponse EXCEPT !.list = hostList])
        out == fetchDevices(r)
    IN  /\ ~fetched
        /\ fetched' = TRUE
        /\ topology' = r
        /\ devices' = IF out.publish THEN r.data ELSE devices
        /\ lastPollTime' = IF out.publish THEN now ELSE lastPollTime
        /\ isLinkHealthy' = out.health
        /\ UNCHANGED <<appSettings, isLoadingDevices, intervalId, inflight,
                       nextSeq, now, lastDone, newest, lastSuccData,
                       hostList, reconVars, uiVars>>

NextNorm == FetchList

SpecNorm == InitNorm /\ [][NextNorm]_vars

(***************************************************************************)
(* The operator's session: polls, selection, target edits and alerts.      *)
(***************************************************************************)
NextUI ==
    \/ \E list \in UiLists : PollCycle(list)
    \/ \E i \in DOMAIN devices : handleDeviceSelect(devices[i])
    \/ Deselect
    \/ syncToDrone
    \/ \E t \in TargetInputs : handleLocationSelect(t[1], t[2])
    \/ handleTrigger
    \/ \E ok \in BOOLEAN : AlertSettles(ok)
    \/ ResetTimerFires

SpecUI == Init /\ [][NextUI]_vars

(***************************************************************************)
(* Properties of the poller (specification Spec).                          *)
(***************************************************************************)
\* a fetchDevices call has completed; lastDone is the one that did so last
Done == lastDone.seq # 0
DoneResp == Responses[lastDone.resp]
DoneTopology == TopologyOf[lastDone.settings.urlOk, lastDone.resp]
DoneUpdates == UpdatesOf[lastDone.settings.urlOk, lastDone.resp]

\* the step is the completion of a fetchDevices call
Completes == lastDone' # lastDone

\* the request of call d was answered with a 2xx response
Http200(d) ==
    /\ d.settings.urlOk
    /\ Responses[d.resp].net = "ok"
    /\ Responses[d.resp].httpOk

\* the body of the answer holds a list of host entries
ValidList(resp) == resp.parses /\ resp.hasData /\ resp.isArray

\* the body of the answer carries the authorization failure code
AuthCode(resp) ==
    resp.parses /\ resp.code.t = "number" /\ resp.code.n = AUTH_CODE

\* C1: when an older-issued fetch completes after a newer-issued one that
\* succeeded, the snapshot stays that of the newer-issued fetch: the
\* snapshot is always the data of the successful completed fetch that was
\* issued last.
C1_MostRecentIssuedWins == newest.seq # 0 => devices = newest.data

\* C2: completions are applied in completion order: after every completion
\* the link health is the classification of the fetch that just completed
\* and the snapshot is the data of the successful fetch that completed last,
\* whatever the issue order.
C2_CompletionOrder ==
    Done => /\ isLinkHealthy = DoneUpdates.health
            /\ devices = lastSuccData

\* C2 witness: a fetch issued before an already completed successful one
\* completed last, successfully, and its different data stands.
C2_Witness ==
    /\ Done
    /\ lastDone.seq < newest.seq
    /\ DoneUpdates.publish
    /\ devices = DoneTopology.data
    /\ devices # newest.data

\* C3: after the poll loop was stopped (the settings changed and the
\* effect's cleanup ran), the completion of a fetch issued before the stop
\* changes neither the snapshot, nor the link health, nor the poll time.
C3_NoCompletionAfterStop ==
    [][(Completes /\ lastDone'.settings.ver < appSettings.ver)
        => /\ devices' = devices
           /\ isLinkHealthy' = isLinkHealthy
           /\ lastPollTime' = lastPollTime]_vars

\* C4: a cycle answered with HTTP 2xx and a body carrying the code 200401
\* ends unauthorized, with or without a host list in the body.
C4_AuthPrecedence ==
    (Done /\ Http200(lastDone) /\ AuthCode(DoneResp))
        => isLinkHealthy = Unauthorized

\* C5: a cycle that ends unauthorized or unhealthy leaves the snapshot and
\* the last poll time as they were before it.
C5_FailureKeepsSnapshot ==
    [][(Completes /\ isLinkHealthy' \in {Unauthorized, Unhealthy})
        => /\ devices' = devices
           /\ lastPollTime' = lastPollTime]_vars

\* C5 witness: a cycle has ended in failure over a snapshot published
\* earlier, which is still there with its poll time.
C5_Witness ==
    /\ Done
    /\ isLinkHealthy \in {Unauthorized, Unhealthy}
    /\ ~DoneUpdates.publish
    /\ devices # <<>>
    /\ lastPollTime # 0

\* C6: a cycle answered with HTTP 2xx, a list of host entries and no
\* authorization failure code publishes the normalized list, sets the link
\* health to healthy and records the time, in the completion step.
C6_SuccessPublishes ==
    [][(Completes /\ Http200(lastDone') /\ ValidList(Responses[lastDone'.resp])
            /\ ~AuthCode(Responses[lastDone'.resp]))
        => /\ devices' = ProcessList(Responses[lastDone'.resp].list)
           /\ isLinkHealthy' = Healthy
           /\ lastPollTime' = now]_vars

\* C7: the link health is healthy after a cycle only if the cycle was
\* answered with HTTP 2xx and a body holding a list of host entries, and
\* nothing was thrown while the list was processed.
C7_HealthyOnlyIfValid ==
    (Done /\ isLinkHealthy = Healthy)
        => /\ Http200(lastDone)
           /\ ValidList(DoneResp)
           /\ ~ListThrows(DoneResp.list)

\* C7 witness: a cycle has ended healthy.
C7_Witness == Done /\ isLinkHealthy = Healthy /\ DoneTopology.code = 0

\* C8: no cycle lets an exception escape: whatever the outcome of the
\* request, the cycle ends with the link health set to healthy,
\* unauthorized or unhealthy.
C8_NeverThrows ==
    Done => /\ ~DoneUpdates.escaped
            /\ DoneUpdates.health \in LinkHealth
            /\ isLinkHealthy = DoneUpdates.health

\* C8 witness: a cycle in which the topology code threw (an invalid URL, a
\* rejected request, an unusable body or entry) has ended unhealthy.
C8_Witness ==
    /\ Done
    /\ TopologyTry(lastDone.settings, DoneResp).thrown
    /\ isLinkHealthy = Unhealthy

\* the foreground calls of fetchDevices whose request has not ended
ForegroundInFlight == {f \in inflight : ~f.isBackground}

\* C31: the loading flag is true exactly while at least one foreground
\* call (the first one, a refresh, the one after a settings save) is in
\* flight, whatever the order in which overlapping calls end.
C31_LoadingIffForegroundInFlight ==
    isLoadingDevices = (ForegroundInFlight # {})

(***************************************************************************)
(* Properties of the marker effect (specification SpecRecon).              *)
(***************************************************************************)
\* the serials of the devices of a snapshot that get marker code
RenderableSns(devs) ==
    {devs[i].device_sn : i \in {k \in DOMAIN devs : Renderable(devs[k])}}

\* the marker calls of the last run with one of these names
OpsNamed(names) == {k \in DOMAIN lastOps : lastOps[k].op \in names}

\* C9: a run of the effect removes the markers of the serials that had one
\* and are not renderable in the new snapshot, creates exactly one marker
\* for each renderable serial that had none, and keeps the handles of the
\* others without creating or removing anything for them.
C9_SetDifference ==
    passes > 0 =>
        LET prev == DOMAIN prevMarkers
            new == RenderableSns(mpDevices)
            created == OpsNamed({"create"})
            removed == OpsNamed({"remove"})
        IN  /\ DOMAIN markersMap = new
            /\ {lastOps[k].sn : k \in created} = new \ prev
            /\ Cardinality(created) = Cardinality(new \ prev)
            /\ \A k \in created : markersMap[lastOps[k].sn].h = lastOps[k].h
            /\ {lastOps[k].sn : k \in removed} = prev \ new
            /\ Cardinality(removed) = Cardinality(prev \ new)
            /\ \A k \in removed :
                    /\ lastOps[k].h = prevMarkers[lastOps[k].sn].h
                    /\ lastOps[k].h \notin layers
            /\ \A sn \in prev \cap new : markersMap[sn].h = prevMarkers[sn].h
            /\ layers = {markersMap[sn].h : sn \in DOMAIN markersMap}

\* C9 witness: the table held markers for A, B and C, and after the run it
\* holds markers for B, C and D.
C9_Witness ==
    /\ passes > 0
    /\ DOMAIN prevMarkers = {"A", "B", "C"}
    /\ DOMAIN markersMap = {"B", "C", "D"}
    /\ RenderableSns(mpDevices) = {"B", "C", "D"}

\* the step is a run of the effect over the devices of the run before it
SameSnapshotAgain ==
    passes >= 1 /\ passes' = passes + 1 /\ mpDevices' = mpDevices

\* the places of the marker calls with one of these names among ops
Named(ops, names) == {k \in DOMAIN ops : ops[k].op \in names}

\* C10 as stated: the second of two runs over the same snapshot makes no
\* marker call at all.
C10_SecondPassNoMutations == [][SameSnapshotAgain => lastOps' = <<>>]_vars

\* C10 amended: the second of two runs over the same snapshot creates and
\* removes no marker and leaves the table as it found it (handles,
\* positions, icons, z-order, popup content and popup state); it sets a
\* position only for a serial that occurs twice in the snapshot; and it
\* sets the icon, the z-order and the popup content (in place or by
\* rebinding) of every renderable device again.
C10_SecondPassKeepsMarkers ==
    [][SameSnapshotAgain =>
        /\ Named(lastOps', {"create", "remove"}) = {}
        /\ markersMap' = markersMap
        /\ layers' = layers
        /\ \A k \in Named(lastOps', {"setLatLng"}) :
                Cardinality({i \in DOMAIN mpDevices :
                                /\ Renderable(mpDevices[i])
                                /\ mpDevices[i].device_sn = lastOps'[k].sn}) > 1
        /\ \A sn \in RenderableSns(mpDevices) :
                /\ \E k \in Named(lastOps', {"setIcon"}) : lastOps'[k].sn = sn
                /\ \E k \in Named(lastOps', {"setZIndexOffset"}) :
                        lastOps'[k].sn = sn
                /\ \E k \in Named(lastOps', {"setContent", "bindPopup"}) :
                        lastOps'[k].sn = sn]_vars

\* C10 witness: a second run over the same snapshot with renderable
\* devices, one of them with its popup open.
C10_Witness ==
    /\ passes >= 2
    /\ mpDevices = prevDevices
    /\ markersMap = prevMarkers
    /\ RenderableSns(mpDevices) # {}
    /\ OpsNamed({"setContent"}) # {}
    /\ OpsNamed({"bindPopup"}) # {}

\* the places in devs of the devices that carry a telemetry record
WithTelemetry(devs) == {i \in DOMAIN devs : devs[i].hasTelemetry}

\* no later device of devs has the serial number of the one at place i
LastOccurrence(devs, i) ==
    \A j \in DOMAIN devs : j > i => devs[j].device_sn # devs[i].device_sn

\* the step is a run of the device marker effect
EffectRuns == passes' = passes + 1

\* C11: after a run of the effect every device of the snapshot that carries
\* a telemetry record (for a serial that occurs more than once, its last
\* occurrence) has a marker in the table at its coordinates, also when the
\* device is online at (0,0).
C11_TelemetryHasMarker ==
    passes > 0 =>
        \A i \in WithTelemetry(mpDevices) :
            LastOccurrence(mpDevices, i) =>
                /\ mpDevices[i].device_sn \in DOMAIN markersMap
                /\ markersMap[mpDevices[i].device_sn].lat
                        = mpDevices[i].telemetry.latitude
                /\ markersMap[mpDevices[i].device_sn].lng
                        = mpDevices[i].telemetry.longitude

\* C12: after a run of the effect the table holds no marker for a serial
\* that is absent from the snapshot or has no telemetry there; a marker
\* that left the table was removed from the map in that run; and a serial
\* whose marker was removed in the run before and whose device carries
\* telemetry again gets a marker with a new handle.
C12_RemovedThenRecreated ==
    [][EffectRuns =>
        /\ \A sn \in DOMAIN markersMap' :
                \E i \in WithTelemetry(mpDevices') :
                    mpDevices'[i].device_sn = sn
        /\ \A sn \in DOMAIN markersMap \ DOMAIN markersMap' :
                /\ markersMap[sn].h \notin layers'
                /\ \E k \in Named(lastOps', {"remove"}) :
                        lastOps'[k] = Op("remove", sn, markersMap[sn].h)
        /\ \A sn \in DOMAIN prevMarkers \ DOMAIN markersMap :
                (\E i \in WithTelemetry(mpDevices') :
                        mpDevices'[i].device_sn = sn)
                    => /\ sn \in DOMAIN markersMap'
                       /\ markersMap'[sn].h >= nextHandle
                       /\ markersMap'[sn].h \in layers']_vars

\* the renderable places of the last snapshot that hold serial sn
Occurrences(sn) ==
    {i \in DOMAIN mpDevices :
        Renderable(mpDevices[i]) /\ mpDevices[i].device_sn = sn}

\* the marker calls of the last run with this name for serial sn
OpsFor(name, sn) ==
    {k \in DOMAIN lastOps : lastOps[k].op = name /\ lastOps[k].sn = sn}

\* C13: a serial that occurs more than once in a snapshot gets one marker,
\* which its later occurrences update: after every run the table and the
\* map hold the same handles, one per serial, every handle made in the run
\* is stored in the table, and a serial with n renderable occurrences got
\* n marker updates, or one creation and n - 1 updates, the marker showing
\* the last occurrence.
C13_DuplicateIsUpdate ==
    passes > 0 =>
        /\ layers = {markersMap[sn].h : sn \in DOMAIN markersMap}
        /\ Cardinality(layers) = Cardinality(DOMAIN markersMap)
        /\ \A k \in OpsNamed({"create"}) :
                /\ lastOps[k].sn \in DOMAIN markersMap
                /\ markersMap[lastOps[k].sn].h = lastOps[k].h
        /\ \A sn \in DOMAIN markersMap :
                /\ Cardinality(OpsFor("create", sn)) <= 1
                /\ Cardinality(OpsFor("create", sn))
                        + Cardinality(OpsFor("setIcon", sn))
                    = Cardinality(Occurrences(sn))
                /\ \E i \in Occurrences(sn) :
                        /\ LastOccurrence(mpDevices, i)
                        /\ markersMap[sn].lat = mpDevices[i].telemetry.latitude
                        /\ markersMap[sn].lng = mpDevices[i].telemetry.longitude
                        /\ markersMap[sn].icon = Icon(mpDevices[i])

\* C13 witness: a snapshot held serial A twice; the run made one marker for
\* it and updated that marker to the position of the second occurrence.
C13_Witness ==
    /\ passes > 0
    /\ Cardinality(Occurrences("A")) = 2
    /\ Cardinality(OpsFor("create", "A")) = 1
    /\ Cardinality(OpsFor("setIcon", "A")) = 1
    /\ Cardinality(OpsFor("setLatLng", "A")) = 1
    /\ markersMap["A"].lat = 2

\* the marker calls named `name` for serial sn among ops
CallsFor(ops, name, sn) ==
    {k \in DOMAIN ops : ops[k].op = name /\ ops[k].sn = sn}

\* the renderable places of devs that hold serial sn
PlacesOf(devs, sn) ==
    {i \in DOMAIN devs : Renderable(devs[i]) /\ devs[i].device_sn = sn}

\* C26: a run of the effect that updates a marker it found in the table
\* leaves the popup open if it was open and closed if it was closed; an
\* open popup gets its content set in place and is not rebound, a closed
\* one is rebound; either way the content is that of the device.
C26_UpdateKeepsPopupState ==
    [][EffectRuns =>
        \A sn \in DOMAIN markersMap \cap DOMAIN markersMap' :
            /\ markersMap'[sn].popupOpen = markersMap[sn].popupOpen
            /\ IF markersMap[sn].popupOpen
               THEN /\ CallsFor(lastOps', "setContent", sn) # {}
                    /\ CallsFor(lastOps', "bindPopup", sn) = {}
               ELSE /\ CallsFor(lastOps', "bindPopup", sn) # {}
                    /\ CallsFor(lastOps', "setContent", sn) = {}
            /\ \E i \in PlacesOf(mpDevices', sn) :
                    /\ LastOccurrence(mpDevices', i)
                    /\ markersMap'[sn].popup = PopupContent(mpDevices'[i])]_vars

\* a run updated a marker whose popup was open, with new content and the
\* popup still open, and rebound the popup of another that was closed
C26_Witness ==
    /\ passes >= 2
    /\ \E sn \in DOMAIN markersMap \cap DOMAIN prevMarkers :
            /\ prevMarkers[sn].popupOpen
            /\ markersMap[sn].popupOpen
            /\ markersMap[sn].popup # prevMarkers[sn].popup
            /\ OpsFor("setContent", sn) # {}
    /\ \E sn \in DOMAIN markersMap \cap DOMAIN prevMarkers :
            /\ ~prevMarkers[sn].popupOpen
            /\ ~markersMap[sn].popupOpen
            /\ OpsFor("bindPopup", sn) # {}

\* the position the marker of serial sn has when the run comes to place i
\* of devs: that of the renderable place of the serial before i, or the
\* one the run found on the marker
PositionBefore(devs, i, sn) ==
    LET earlier == {j \in PlacesOf(devs, sn) : j < i}
    IN  IF earlier = {}
        THEN <<markersMap[sn].lat, markersMap[sn].lng>>
        ELSE LET j == CHOOSE x \in earlier : \A y \in earlier : y <= x
             IN  <<devs[j].telemetry.latitude, devs[j].telemetry.longitude>>

\* C27: for a marker the run found in the table, a position set is issued
\* for a device exactly when its latitude or its longitude differs from
\* the marker's position at that moment: none when both are equal, and
\* one when at least one differs.
C27_PositionSetIffMoved ==
    [][EffectRuns =>
        \A sn \in DOMAIN markersMap :
            Cardinality(CallsFor(lastOps', "setLatLng", sn))
                = Cardinality(
                    {i \in PlacesOf(mpDevices', sn) :
                        <<mpDevices'[i].telemetry.latitude,
                          mpDevices'[i].telemetry.longitude>>
                            # PositionBefore(mpDevices', i, sn)})]_vars

\* a run found two markers: the device of one was where the marker was and
\* got no position set, the other had moved in longitude alone and got one
C27_Witness ==
    /\ passes >= 2
    /\ \E sn \in DOMAIN markersMap \cap DOMAIN prevMarkers :
            /\ markersMap[sn].lat = prevMarkers[sn].lat
            /\ markersMap[sn].lng = prevMarkers[sn].lng
            /\ OpsFor("setIcon", sn) # {}
            /\ OpsFor("setLatLng", sn) = {}
    /\ \E sn \in DOMAIN markersMap \cap DOMAIN prevMarkers :
            /\ markersMap[sn].lat = prevMarkers[sn].lat
            /\ markersMap[sn].lng # prevMarkers[sn].lng
            /\ Cardinality(OpsFor("setLatLng", sn)) = 1

(***************************************************************************)
(* Properties of one poll cycle over a host list (specification SpecNorm). *)
(***************************************************************************)
\* the number a numeric field holds, 0 when it is absent or null
FieldNum(x) == IF x.t = "number" THEN x.n ELSE 0

\* the domain code of a host record: the explicit field, else the field of
\* the model record, else the integer before the first '-' of the model key
\* (U: none can be determined)
DomainCode(h) ==
    IF ~IsNullish(h.domain) THEN h.domain
    ELSE IF ~IsNullish(h.modelDomain) THEN h.modelDomain
    ELSE IF h.device_model_key.t = "string"
                /\ KeyHead(h.device_model_key.s) \in DecimalStrings
         THEN Num(StrToInt(KeyHead(h.device_model_key.s)))
         ELSE U

\* the domain code is that of aerial vehicles: 0, as a number or as text
Aerial(h) == DomainCode(h) \in {Num(0), Str("0")}

\* the field holds a serial number
HoldsSerial(x) ==
    \/ (x.t = "string" /\ x.s # "")
    \/ (x.t = "number" /\ x.n # 0)

HasSerial(h) == HoldsSerial(h.device_sn) \/ HoldsSerial(h.sn)

\* the text of the first of the two serial fields that holds one
FirstSerial(h) ==
    IF HoldsSerial(h.device_sn) THEN ToStr(h.device_sn) ELSE ToStr(h.sn)

\* the list had a single entry, which was kept: the entry and its device
OneKept == fetched /\ Len(hostList) = 1 /\ Len(topology.data) = 1
TheHost == hostList[1].host
TheDevice == topology.data[1]

\* C14: no two devices of the published snapshot share a serial number.
C14_UniqueSerials ==
    fetched =>
        \A i, j \in DOMAIN devices :
            i # j => devices[i].device_sn # devices[j].device_sn

\* C15: only entries whose domain code equals 0 get into the output: the
\* output holds no more devices than the list holds entries with a host
\* record of domain code 0, so an entry with another code, or with none
\* (all three fields absent or null), is not in it.
C15_OnlyAerialKept ==
    fetched =>
        Len(topology.data)
            <= Cardinality({i \in DOMAIN hostList :
                                /\ hostList[i].hasHost
                                /\ Aerial(hostList[i].host)})

\* C16: an entry with a serial number in neither serial field is not in the
\* output, and the serial number of every device of the output is not
\* empty and is the first of the two fields of its entry that holds one.
C16_SerialRequired ==
    fetched =>
        /\ Len(topology.data)
                <= Cardinality({i \in DOMAIN hostList :
                                    /\ hostList[i].hasHost
                                    /\ HasSerial(hostList[i].host)})
        /\ \A k \in DOMAIN topology.data :
                /\ topology.data[k].device_sn # ""
                /\ \E i \in DOMAIN hostList :
                        /\ hostList[i].hasHost
                        /\ HasSerial(hostList[i].host)
                        /\ topology.data[k].device_sn
                                = FirstSerial(hostList[i].host)
        /\ OneKept => TheDevice.device_sn = FirstSerial(TheHost)

\* C16 witness: the first serial field of the entry is empty and the second
\* holds "B": the device is kept under "B".
C16_Witness ==
    /\ OneKept
    /\ TheHost.device_sn = Str("")
    /\ TheHost.sn = Str("B")
    /\ TheDevice.device_sn = "B"

\* the entry is usable: it has a host record of domain code 0 with a serial
\* number (a null item has none of them)
Usable(item) ==
    /\ ~item.isNull
    /\ item.hasHost
    /\ Aerial(item.host)
    /\ HasSerial(item.host)

\* C17: when exactly one entry of the list is unusable (null, without host
\* record, with a malformed model key, not aerial or without serial
\* number), the cycle ends healthy and publishes a snapshot that holds the
\* device of every other entry.
C17_UnusableEntrySkipped ==
    (fetched /\ Cardinality({i \in DOMAIN hostList : ~Usable(hostList[i])}) = 1)
        => /\ isLinkHealthy = Healthy
           /\ \A i \in DOMAIN hostList :
                Usable(hostList[i]) =>
                    \E k \in DOMAIN devices :
                        devices[k] = DeviceOf(hostList[i].host)

\* the live position of a host record
LivePosition(h) ==
    IF h.device_state.present
    THEN [lat |-> FieldNum(h.device_state.latitude),
          lng |-> FieldNum(h.device_state.longitude)]
    ELSE [lat |-> 0, lng |-> 0]

\* the resolved position: the offline position when the live one is (0,0)
\* and there is an offline position, else the live one
ResolvedPosition(h) ==
    IF LivePosition(h) = [lat |-> 0, lng |-> 0]
            /\ h.device_offline_position.present
    THEN [lat |-> FieldNum(h.device_offline_position.latitude),
          lng |-> FieldNum(h.device_offline_position.longitude)]
    ELSE LivePosition(h)

\* C18: a device has a telemetry record iff its resolved latitude is not 0,
\* or its resolved longitude is not 0, or it is online; an offline device
\* resolved to (0,0) has none.
C18_TelemetryIff ==
    OneKept =>
        (TheDevice.hasTelemetry
            <=> \/ ResolvedPosition(TheHost).lat # 0
                \/ ResolvedPosition(TheHost).lng # 0
                \/ TheDevice.status)

\* C18 witness: an offline device whose live and offline positions are both
\* (0,0) is in the output without telemetry.
C18_Witness ==
    /\ OneKept
    /\ ~TheDevice.status
    /\ TheHost.device_state.present
    /\ TheHost.device_offline_position.present
    /\ ResolvedPosition(TheHost) = [lat |-> 0, lng |-> 0]
    /\ ~TheDevice.hasTelemetry

\* C19: the position of the telemetry record is the live position, unless
\* the live position is (0,0) or absent and an offline position exists,
\* when it is the offline position; with a live coordinate that is not 0
\* the offline position is not used.
C19_PositionResolution ==
    (OneKept /\ TheDevice.hasTelemetry) =>
        /\ TheDevice.telemetry.latitude = ResolvedPosition(TheHost).lat
        /\ TheDevice.telemetry.longitude = ResolvedPosition(TheHost).lng
        /\ LivePosition(TheHost) # [lat |-> 0, lng |-> 0] =>
                /\ TheDevice.telemetry.latitude = LivePosition(TheHost).lat
                /\ TheDevice.telemetry.longitude = LivePosition(TheHost).lng

\* C19 witness: a live position of (0,0) with an offline position of (3,3)
\* gives a telemetry position of (3,3).
C19_Witness ==
    /\ OneKept
    /\ TheHost.device_state.present
    /\ LivePosition(TheHost) = [lat |-> 0, lng |-> 0]
    /\ TheHost.device_offline_position.latitude = Num(3)
    /\ TheDevice.hasTelemetry
    /\ TheDevice.telemetry.latitude = 3
    /\ TheDevice.telemetry.longitude = 3

\* the battery percent the fields of a host record resolve to
ResolvedBattery(h) ==
    LET b == h.device_state.battery
    IN  IF ~(h.device_state.present /\ b.present) THEN 0
        ELSE IF FieldNum(b.capacity_percent) # 0
             THEN FieldNum(b.capacity_percent)
             ELSE IF b.isArray /\ b.batteries # <<>>
                  THEN FieldNum(b.batteries[1])
                  ELSE 0

\* C20: the battery percent is the direct percent when that is not 0; when
\* it is 0 or absent it is the percent of the first entry of the batteries
\* list if the list has entries, and 0 otherwise.
C20_BatteryResolution ==
    (OneKept /\ TheDevice.hasTelemetry) =>
        TheDevice.telemetry.battery_percent = ResolvedBattery(TheHost)

\* C20 witness: a direct percent of 0 with a first list entry of 55 gives
\* a battery percent of 55.
C20_Witness ==
    /\ OneKept
    /\ TheDevice.hasTelemetry
    /\ TheHost.device_state.battery.capacity_percent = Num(0)
    /\ TheHost.device_state.battery.batteries = <<Num(55)>>
    /\ TheDevice.telemetry.battery_percent = 55

\* the value of the first of two aliases that is present, 0 when neither is
FirstPresent(first, second) ==
    IF ~IsNullish(first) THEN FieldNum(first)
    ELSE IF ~IsNullish(second) THEN FieldNum(second)
         ELSE 0

\* C28: the height is the value of the height field when that is present,
\* be it 0, else the value of the elevation field when that is present,
\* else 0; the yaw is resolved the same way from attitude head, then
\* heading.
C28_FirstPresentAlias ==
    (OneKept /\ TheDevice.hasTelemetry) =>
        /\ TheDevice.telemetry.height
                = FirstPresent(TheHost.device_state.height,
                               TheHost.device_state.elevation)
        /\ TheDevice.telemetry.yaw
                = FirstPresent(TheHost.device_state.attitude_head,
                               TheHost.device_state.heading)

(***************************************************************************)
(* Properties of the selection, the target coordinate and the alert        *)
(* workflow (specification SpecUI).                                        *)
(***************************************************************************)
\* the entries of the snapshot that carry the selected serial
SelectedEntries ==
    {i \in DOMAIN devices : devices[i].device_sn = selectedDeviceSn}

\* the nearest multiple of 10^-6 degree
Round6(x) ==
    CHOOSE m \in {10 * k : k \in -100..100} :
        \A n \in {10 * k : k \in -100..100} : Abs(m - x) <= Abs(n - x)

\* the snapshot a host list normalizes to
SnapshotOf(list) == ProcessList(list)

SnapshotFirst ==
    SnapshotOf(<<HostItem(Drone("A", 14, -26, 0)), HostItem(Silent("B")),
                 HostItem(OnlineNoFix("C"))>>)

SnapshotSecond == SnapshotOf(<<HostItem(Drone("A", 26, -26, 0))>>)

\* C21: a run of copy-to-target leaves the target latitude and longitude
\* as they were when nothing is selected, when no entry of the current
\* snapshot carries the selected serial, or when the selected entry has no
\* telemetry.
C21_CopyWithoutTelemetryKeepsTarget ==
    [][(/\ lastHandler' = "syncToDrone"
        /\ \A i \in SelectedEntries : ~devices[i].hasTelemetry)
       => (latitude' = latitude /\ longitude' = longitude)]_vars

\* copy-to-target ran on a selected device without telemetry after the
\* operator had moved the target
C21_Witness ==
    /\ lastHandler = "syncToDrone"
    /\ selectedDeviceSn = "B"
    /\ devices = SnapshotFirst
    /\ latitude = 33
    /\ longitude = 44

\* C22: when the selected serial resolves to an entry with telemetry in the
\* current snapshot, a run of copy-to-target sets the target to that
\* entry's position in the current snapshot, rounded to six decimal places.
C22_CopyTakesLatestPosition ==
    [][(lastHandler' = "syncToDrone")
       => \A i \in SelectedEntries :
              devices[i].hasTelemetry
              => /\ latitude' = Round6(devices[i].telemetry.latitude)
                 /\ longitude' = Round6(devices[i].telemetry.longitude)]_vars

\* the device was selected at (14, -26), a later snapshot has it at
\* (26, -26), and copy-to-target has written (30, -30)
C22_Witness ==
    /\ lastHandler = "syncToDrone"
    /\ selectedDeviceSn = "A"
    /\ flyTo = [set |-> TRUE, lat |-> 14, lng |-> -26]
    /\ devices = SnapshotSecond
    /\ latitude = 30
    /\ longitude = -30

\* C23: a selection sets the selected serial to the serial of an entry of
\* the snapshot and makes exactly one recentering call, to that entry's
\* coordinates, when its position is not (0, 0), and none when it has no
\* telemetry or is at (0, 0); no other step, a poll cycle included, makes a
\* recentering call.
C23_OneRecenteringPerSelection ==
    IF lastHandler = "handleDeviceSelect"
    THEN \E i \in SelectedEntries :
             mapFlights =
                 IF /\ devices[i].hasTelemetry
                    /\ (devices[i].telemetry.latitude # 0
                        \/ devices[i].telemetry.longitude # 0)
                 THEN <<[lat |-> devices[i].telemetry.latitude,
                         lng |-> devices[i].telemetry.longitude,
                         zoom |-> 19]>>
                 ELSE <<>>
    ELSE mapFlights = <<>>

\* the selected device has moved in a later snapshot and the poll cycle
\* that published it made no recentering call
C23_Witness ==
    /\ lastHandler = "fetchDevices"
    /\ selectedDeviceSn = "A"
    /\ flyTo = [set |-> TRUE, lat |-> 14, lng |-> -26]
    /\ devices = SnapshotSecond
    /\ mapFlights = <<>>

\* C24: the selected serial changes only in a step of a selection or of
\* the deselect button; a poll cycle keeps it, also when the published
\* snapshot no longer has the serial, and the selection then resolves to
\* no device.
C24_SelectionChangesOnlyByUser ==
    [][/\ (selectedDeviceSn' # selectedDeviceSn
           => lastHandler' \in {"handleDeviceSelect", "deselect"})
       /\ (lastHandler' = "fetchDevices"
           => /\ selectedDeviceSn' = selectedDeviceSn
              /\ ((\A i \in DOMAIN devices' :
                       devices'[i].device_sn # selectedDeviceSn)
                  => SelectedIndex(devices', selectedDeviceSn') = 0))]_vars

\* the serial selected in the first snapshot is absent from the one just
\* published
C24_Witness ==
    /\ lastHandler = "fetchDevices"
    /\ selectedDeviceSn = "B"
    /\ devices = SnapshotSecond

C29_StatusReturnsToIdle ==
    (alertsDone /\ alertsInFlight = 0 /\ resetTimers = 0) => status = "IDLE"

\* C30: at most one alert request is in flight, and while one is in flight
\* the status is SENDING.
C30_OneAlertInFlight ==
    /\ alertsInFlight <= 1
    /\ (alertsInFlight > 0 => status = "SENDING")

====
